---------------------------- MODULE Spec2Model ----------------------------
(***************************************************************************)
(* A model of fetch_news.py: the daily aggregation of PubMed and arXiv     *)
(* records into three topic buckets (ai_biomed, microfluidics, bioinfo).   *)
(*                                                                         *)
(* Strings are sequences of one-character strings, so that slicing, the    *)
(* ISO parser and the regular expression of iso_date are computed          *)
(* character by character.  Titles and summaries are sequences of words.   *)
(***************************************************************************)
EXTENDS Integers, Sequences, FiniteSets, TLC

VARIABLES
    pc,         \* main(): the statement main() is at
    today,      \* dt.datetime.now(JST).date() of the run, as <<y, m, d>>
    ai_pub, micro_pub, bio_pub, ai_arxiv, bio_arxiv,   \* main()'s locals
    bucket,     \* ai_all / micro_all / bio_all, by topic name
    written,    \* the output files written so far
    nrecs,      \* records the sources have returned so far in this run
    last,       \* history: what the source of the latest fetch returned
    wd,         \* one call of within_days: arguments and result
    dd,         \* one call of dedupe: argument and result
    cv          \* one call of best_cover_for: the web it sees and its result

vars == <<pc, today, ai_pub, micro_pub, bio_pub, ai_arxiv, bio_arxiv,
          bucket, written, nrecs, last, wd, dd, cv>>

----------------------------------------------------------------------------
(* Configuration *)

DAYS_LOOKBACK == 3

MAX_PER_SECTION == 40

Max(a, b) == IF a >= b THEN a ELSE b

Min(a, b) == IF a <= b THEN a ELSE b

----------------------------------------------------------------------------
(* Characters and calendar dates *)

Digits == <<"0", "1", "2", "3", "4", "5", "6", "7", "8", "9">>

IsDigit(c) == \E i \in 1..10 : Digits[i] = c

DigitVal(c) == (CHOOSE i \in 1..10 : Digits[i] = c) - 1

\* s[i], or "" past either end
At(s, i) == IF i \in 1..Len(s) THEN s[i] ELSE ""

\* Python's s[:n]
Prefix(s, n) == SubSeq(s, 1, Min(n, Len(s)))

\* int() of the digits s[i..j]
RECURSIVE Num(_, _, _)
Num(s, i, j) == IF j < i THEN 0 ELSE 10 * Num(s, i, j - 1) + DigitVal(s[j])

IsLeap(y) == (y % 4 = 0) /\ ((y % 100 # 0) \/ (y % 400 = 0))

DaysInMonth(y, m) ==
    IF m = 2 THEN (IF IsLeap(y) THEN 29 ELSE 28)
    ELSE IF m \in {4, 6, 9, 11} THEN 30 ELSE 31

\* what the constructor dt.date(y, m, d) accepts
ValidDate(y, m, d) ==
    /\ y \in 1..9999
    /\ m \in 1..12
    /\ d \in 1..DaysInMonth(y, m)

RECURSIVE DaysBeforeMonth(_, _)
DaysBeforeMonth(y, m) ==
    IF m <= 1 THEN 0 ELSE DaysBeforeMonth(y, m - 1) + DaysInMonth(y, m - 1)

\* date.toordinal(): the difference of two of them is (a - b).days
ToOrdinal(t) ==
    LET y == t[1] - 1 IN
    y * 365 + (y \div 4) - (y \div 100) + (y \div 400)
      + DaysBeforeMonth(t[1], t[2]) + t[3]

Pad2(n) == <<Digits[((n \div 10) % 10) + 1], Digits[(n % 10) + 1]>>

Pad4(n) == Pad2(n \div 100) \o Pad2(n % 100)

\* date.isoformat(): YYYY-MM-DD
IsoFormat(t) == Pad4(t[1]) \o <<"-">> \o Pad2(t[2]) \o <<"-">> \o Pad2(t[3])

NoDate == <<>>

\* dt.date.fromisoformat(s) for the extended form YYYY-MM-DD: the date, or
\* NoDate where it raises ValueError.
FromIsoFormat(s) ==
    IF /\ Len(s) = 10
       /\ \A i \in {1, 2, 3, 4, 6, 7, 9, 10} : IsDigit(s[i])
       /\ s[5] = "-" /\ s[8] = "-"
       /\ ValidDate(Num(s, 1, 4), Num(s, 6, 7), Num(s, 9, 10))
    THEN <<Num(s, 1, 4), Num(s, 6, 7), Num(s, 9, 10)>>
    ELSE NoDate

IsSep(c) == c \in {"-", "/", "."}

\* (\d{4})[-/\.](\d{1,2})[-/\.](\d{1,2}) matched at position i: the three
\* groups as numbers, or NoDate.  \d{1,2} is greedy; a two-digit month that
\* is not followed by a separator cannot be retried as one digit followed by
\* a separator, so greedy is the only choice to try.
ReMatchAt(s, i) ==
    LET mlen == IF IsDigit(At(s, i + 6)) THEN 2 ELSE 1
        dpos == i + 5 + mlen + 1
        dlen == IF IsDigit(At(s, dpos + 1)) THEN 2 ELSE 1
    IN  IF /\ \A k \in i..(i + 3) : IsDigit(At(s, k))
           /\ IsSep(At(s, i + 4))
           /\ IsDigit(At(s, i + 5))
           /\ IsSep(At(s, i + 5 + mlen))
           /\ IsDigit(At(s, dpos))
        THEN <<Num(s, i, i + 3), Num(s, i + 5, i + 4 + mlen),
               Num(s, dpos, dpos + dlen - 1)>>
        ELSE NoDate

\* re.search: the leftmost match
ReSearch(s) ==
    LET hits == {i \in 1..Len(s) : ReMatchAt(s, i) # NoDate}
    IN  IF hits = {} THEN NoDate
        ELSE ReMatchAt(s, CHOOSE i \in hits : \A j \in hits : i <= j)

\* the value standing for "the call raised"
Raise == <<"ValueError">>

\* iso_date(s): the string it returns, or Raise where dt.date(y, mo, d) in
\* the except branch raises ValueError itself.
iso_date(s) ==
    LET p == FromIsoFormat(Prefix(s, 10))
        m == ReSearch(s)
    IN  IF p # NoDate THEN IsoFormat(p)
        ELSE IF m # NoDate
             THEN (IF ValidDate(m[1], m[2], m[3]) THEN IsoFormat(m) ELSE Raise)
             ELSE Prefix(s, 10)

within_days_strict(date_str, days, now) ==
    LET d == FromIsoFormat(Prefix(date_str, 10))
    IN  IF d = NoDate THEN TRUE
        ELSE ToOrdinal(now) - ToOrdinal(d) < Max(days, 0)

\* within_days(date_str, days), with today's JST date as a parameter
within_days(date_str, days, now) ==
    LET d == FromIsoFormat(Prefix(date_str, 10))
    IN  IF d = NoDate THEN TRUE
        ELSE ToOrdinal(now) - ToOrdinal(d) <= Max(days, 0)

today_jst_str(now) == IsoFormat(now)

----------------------------------------------------------------------------
(* The recency filter called on its own *)

MaxDays == 4

Years == {2023, 2024}

Dates == {t \in Years \X (1..12) \X (1..31) : ValidDate(t[1], t[2], t[3])}

\* the run's date: a leap day's morrow, a new year's day, an ordinary day,
\* a year's last day
Todays == {<<2024, 3, 1>>, <<2024, 1, 1>>, <<2023, 3, 2>>, <<2024, 12, 31>>}

\* what follows the date in a timestamp: nothing, or arXiv's time of day
Suffixes == {<<>>, <<"T", "0", "9", ":", "3", "0", ":", "0", "0", "Z">>}

\* strings that are no ISO date
OddStrs == { <<>>,
             <<"2", "0", "2", "4">>,
             <<"2", "0", "2", "4", " ", "J", "a", "n">>,
             <<"2", "0", "2", "4", " ", "J", "a", "n", " ", "1", "5">>,
             <<"y", "e", "s", "t", "e", "r", "d", "a", "y">>,
             <<"2", "0", "2", "4", "-", "0", "2", "-", "3", "0">> }

NoFetch == [source |-> "none", ok |-> TRUE, recs |-> <<>>]

Topics == {"ai_biomed", "microfluidics", "bioinfo"}

EmptyBuckets == [t \in Topics |-> <<>>]

IdlePipeline ==
    /\ pc = "idle"
    /\ ai_pub = <<>> /\ micro_pub = <<>> /\ bio_pub = <<>>
    /\ ai_arxiv = <<>> /\ bio_arxiv = <<>>
    /\ bucket = EmptyBuckets /\ written = {} /\ nrecs = 0 /\ last = NoFetch

InitWithinDays ==
    /\ IdlePipeline
    /\ today \in Todays
    /\ dd = [phase |-> "idle"] /\ cv = [phase |-> "idle"]
    /\ \/ \E t \in Dates, x \in Suffixes, n \in (-1)..MaxDays :
            wd = [phase |-> "in", d |-> t, date_str |-> IsoFormat(t) \o x,
                  days |-> n]
       \/ \E s \in OddStrs, n \in (-1)..MaxDays :
            wd = [phase |-> "in", d |-> NoDate, date_str |-> s, days |-> n]

CallWithinDays ==
    /\ wd.phase = "in"
    /\ wd' = [wd EXCEPT !.phase = "out"] @@
             [result |-> within_days(wd.date_str, wd.days, today)]
    /\ UNCHANGED <<pc, today, ai_pub, micro_pub, bio_pub, ai_arxiv, bio_arxiv,
                   bucket, written, nrecs, last, dd, cv>>

SpecWithinDays == InitWithinDays /\ [][CallWithinDays]_vars

\* the calendar, one day back
PrevDay(t) ==
    IF t[3] > 1 THEN <<t[1], t[2], t[3] - 1>>
    ELSE IF t[2] > 1 THEN <<t[1], t[2] - 1, DaysInMonth(t[1], t[2] - 1)>>
    ELSE <<t[1] - 1, 12, 31>>

RECURSIVE DaysBefore(_, _)
DaysBefore(t, n) == IF n = 0 THEN t ELSE DaysBefore(PrevDay(t), n - 1)

DateLess(a, b) ==
    \/ a[1] < b[1]
    \/ a[1] = b[1] /\ a[2] < b[2]
    \/ a[1] = b[1] /\ a[2] = b[2] /\ a[3] < b[3]

\* C2: for lookback_days >= 0 and a valid date d, within_days is true when d
\* is exactly lookback_days days before today and false when it is
\* lookback_days + 1 days before; a date passes iff it is at most
\* lookback_days days before today (a date after today is fewer than 0 days
\* before it).
C2_RecencyBoundary ==
    (wd.phase = "out" /\ wd.days >= 0 /\ wd.d # NoDate) =>
        /\ wd.d = DaysBefore(today, wd.days) => wd.result = TRUE
        /\ wd.d = DaysBefore(today, wd.days + 1) => wd.result = FALSE
        /\ wd.result = ( \/ DateLess(today, wd.d)
                         \/ \E k \in 0..wd.days : wd.d = DaysBefore(today, k) )

\* a date exactly lookback_days > 0 before today, in the month before
\* today's, has passed the filter
C2_Witness ==
    /\ wd.phase = "out" /\ wd.days > 0 /\ wd.d # NoDate
    /\ wd.d = DaysBefore(today, wd.days)
    /\ wd.d[2] # today[2]
    /\ wd.result = TRUE

----------------------------------------------------------------------------
(* Text: str.lower(), word by word *)

LowerTable ==
    [w \in {"Deep", "DEEP", "Learning", "MRI", "Single-Cell", "SINGLE-CELL",
            "Nature", "NATURE", "arXiv", "ARXIV", "Atlas"} |->
        CASE w \in {"Deep", "DEEP"} -> "deep"
          [] w = "Learning" -> "learning"
          [] w = "MRI" -> "mri"
          [] w \in {"Single-Cell", "SINGLE-CELL"} -> "single-cell"
          [] w \in {"Nature", "NATURE"} -> "nature"
          [] w \in {"arXiv", "ARXIV"} -> "arxiv"
          [] w = "Atlas" -> "atlas"]

\* a word without upper-case letters is its own lower()
LowerWord(w) == IF w \in DOMAIN LowerTable THEN LowerTable[w] ELSE w

Lower(text) == [i \in 1..Len(text) |-> LowerWord(text[i])]

----------------------------------------------------------------------------
(* dedupe *)

RECURSIVE DedupeCaseSensitive(_, _, _)
DedupeCaseSensitive(items, i, seen) ==
    IF i > Len(items) THEN <<>>
    ELSE LET key == <<items[i].title, items[i].source>>
         IN  IF key \in seen THEN DedupeCaseSensitive(items, i + 1, seen)
             ELSE <<items[i]>> \o
                  DedupeCaseSensitive(items, i + 1, seen \cup {key})

dedupe_case_sensitive(items) == DedupeCaseSensitive(items, 1, {})

\* the loop of dedupe from item i on, with the keys seen so far
RECURSIVE DedupeFrom(_, _, _)
DedupeFrom(items, i, seen) ==
    IF i > Len(items) THEN <<>>
    ELSE LET key == <<Lower(items[i].title), LowerWord(items[i].source)>>
         IN  IF key \in seen THEN DedupeFrom(items, i + 1, seen)
             ELSE <<items[i]>> \o DedupeFrom(items, i + 1, seen \cup {key})

dedupe(items) == DedupeFrom(items, 1, {})

MaxItems == 3

DedupeTitles == {<<"Deep", "Learning">>, <<"deep", "learning">>, <<"MRI">>}

DedupeSources == {"Nature", "nature"}

\* a URL is its host, its path and what follows the "?"
DedupeUrls == { [host |-> "a.org", path |-> "/1", query |-> ""],
                [host |-> "a.org", path |-> "/1", query |-> "utm=x"],
                [host |-> "a.org", path |-> "/2", query |-> ""] }

\* the items of one call; oid is the object's identity, which dedupe
\* never reads
InitDedupe ==
    /\ IdlePipeline
    /\ today = <<2024, 3, 1>>
    /\ wd = [phase |-> "idle"] /\ cv = [phase |-> "idle"]
    /\ \E n \in 0..MaxItems :
         \E ts \in [1..n -> DedupeTitles], ss \in [1..n -> DedupeSources],
            us \in [1..n -> DedupeUrls] :
           dd = [phase |-> "in",
                 items |-> [i \in 1..n |->
                              [oid |-> i, title |-> ts[i], source |-> ss[i],
                               url |-> us[i]]]]

CallDedupe ==
    /\ dd.phase = "in"
    /\ dd' = [phase |-> "out", items |-> dd.items, out |-> dedupe(dd.items)]
    /\ UNCHANGED <<pc, today, ai_pub, micro_pub, bio_pub, ai_arxiv, bio_arxiv,
                   bucket, written, nrecs, last, wd, cv>>

SpecDedupe == InitDedupe /\ [][CallDedupe]_vars

SameTitleSource(a, b) ==
    Lower(a.title) = Lower(b.title) /\ LowerWord(a.source) = LowerWord(b.source)

StripQuery(u) == [u EXCEPT !.query = ""]

SameUrl(a, b) == StripQuery(a.url) = StripQuery(b.url)

OutOids == {dd.out[k].oid : k \in 1..Len(dd.out)}

\* the items of s at the positions in K, in order
RECURSIVE Select(_, _, _)
Select(s, K, i) ==
    IF i > Len(s) THEN <<>>
    ELSE (IF i \in K THEN <<s[i]>> ELSE <<>>) \o Select(s, K, i + 1)

\* C1 as stated: of any two input items equal on (lowercased title,
\* lowercased source) or on the URL without its query, exactly the earlier
\* one is in the output; the items that match no earlier item on either key
\* are the output, in their input order.
C1_AsStated ==
    dd.phase = "out" =>
        LET its == dd.items
            Fresh == {i \in 1..Len(its) : \A j \in 1..(i - 1) :
                         ~SameTitleSource(its[j], its[i]) /\ ~SameUrl(its[j], its[i])}
        IN  /\ \A i, j \in 1..Len(its) :
                  (i < j /\ (SameTitleSource(its[i], its[j]) \/ SameUrl(its[i], its[j])))
                     => (i \in OutOids /\ j \notin OutOids)
            /\ dd.out = Select(its, Fresh, 1)

\* C1, amended: an item is in the output exactly when no earlier input item
\* has the same (lowercased title, lowercased source), so of two items equal
\* on that key the later one is dropped and the first item of each key
\* survives; the output keeps the input order; URLs play no part.
C1_Amended ==
    dd.phase = "out" =>
        LET its == dd.items
            First == {i \in 1..Len(its) : \A j \in 1..(i - 1) :
                         ~SameTitleSource(its[j], its[i])}
        IN  /\ dd.out = Select(its, First, 1)
            /\ \A i, j \in 1..Len(its) :
                  (i < j /\ SameTitleSource(its[i], its[j])) => j \notin OutOids

\* a later item that differs from an earlier one only in letter case was
\* dropped, while two items with the same URL-minus-query both survived
C1_Witness ==
    /\ dd.phase = "out"
    /\ \E i, j \in 1..Len(dd.items) :
         /\ i < j
         /\ dd.items[i].title # dd.items[j].title
         /\ SameTitleSource(dd.items[i], dd.items[j])
         /\ i \in OutOids /\ j \notin OutOids
    /\ \E i, j \in OutOids :
         i < j /\ SameUrl(dd.items[i], dd.items[j])

----------------------------------------------------------------------------
(* Cover resolution *)

None == <<>>

\* safe_get: None after any exception or non-success status, else the page.
\* Of a page the resolver reads the content attribute of its og:image and
\* twitter:image meta tags ("absent": no such tag, "empty": no content,
\* "img": a URL, "bad": a string urljoin rejects, such as "http://[") and
\* the href of its first full-text link.
NoResponse == [ok |-> FALSE]

MetaVals == {"absent", "empty", "img", "bad"}

LinkVals == {"absent", "ok", "bad"}

Pages == [ok : {TRUE}, og : MetaVals, tw : MetaVals, link : LinkVals]

Responses == {NoResponse} \cup Pages

\* the first selector of ("meta[property='og:image']",
\* "meta[name='twitter:image']") whose tag has content
MetaContent(page) ==
    IF page.og \notin {"absent", "empty"} THEN page.og
    ELSE IF page.tw \notin {"absent", "empty"} THEN page.tw
    ELSE "absent"

\* get_og_image(url) when safe_get(url) answers resp
get_og_image(url, resp) ==
    IF ~resp.ok THEN None
    ELSE IF MetaContent(resp) = "bad" THEN Raise
    ELSE IF MetaContent(resp) = "img" THEN <<"img", url.host>>
    ELSE <<"favicon", url.host>>

PubMedHost == "pubmed.ncbi.nlm.nih.gov"

PubMedUrl(pmid) == [host |-> PubMedHost, path |-> pmid, query |-> ""]

FullTextUrl == [host |-> "publisher.org", path |-> "/article", query |-> ""]

\* best_cover_for(url) when the successive fetches answer r1 (the landing
\* page), r2 (the full-text page) and r3 (the landing page again): the
\* result and the URLs fetched, in order.
best_cover_for(url, r1, r2, r3) ==
    IF LowerWord(url.host) = PubMedHost
    THEN LET viaLink == r1.ok /\ r1.link # "absent"
             img == get_og_image(FullTextUrl, r2)
         IN  IF viaLink /\ r1.link = "bad"
                 THEN [result |-> Raise, fetched |-> <<url>>]
             ELSE IF viaLink /\ img # None
                 THEN [result |-> img, fetched |-> <<url, FullTextUrl>>]
             ELSE [result |-> get_og_image(url, r3),
                   fetched |-> (IF viaLink THEN <<url, FullTextUrl, url>>
                                ELSE <<url, url>>)]
    ELSE [result |-> get_og_image(url, r1), fetched |-> <<url>>]

CoverUrls == { PubMedUrl("/38000001/"),
               [host |-> "arxiv.org", path |-> "/abs/2403.00001", query |-> ""] }

InitCover ==
    /\ IdlePipeline
    /\ today = <<2024, 3, 1>>
    /\ wd = [phase |-> "idle"] /\ dd = [phase |-> "idle"]
    /\ \E u \in CoverUrls : cv = [phase |-> "in", url |-> u]

\* one call of best_cover_for; the web answers each fetch as it likes
CallBestCover ==
    /\ cv.phase = "in"
    /\ \E r1, r2, r3 \in Responses :
         /\ r2.ok => r2.link = "absent"
         /\ r3.ok => r3.link = "absent"
         /\ cv' = [phase |-> "out", url |-> cv.url,
                   r1 |-> r1, r2 |-> r2, r3 |-> r3] @@
                  best_cover_for(cv.url, r1, r2, r3)
    /\ UNCHANGED <<pc, today, ai_pub, micro_pub, bio_pub, ai_arxiv, bio_arxiv,
                   bucket, written, nrecs, last, wd, dd>>

SpecCover == InitCover /\ [][CallBestCover]_vars

\* the response to the k-th fetch of the call
CoverResponse(k) ==
    IF cv.fetched[k] = FullTextUrl THEN cv.r2
    ELSE IF k = 1 THEN cv.r1 ELSE cv.r3

\* C10: cover resolution never raises; when the fetches of the landing page
\* fail the result is empty; a favicon is returned only when a page was
\* fetched successfully and carried no og:image / twitter:image content; and
\* for a PubMed landing page the full-text page is asked for an image before
\* the PubMed page is.
C10_CoverNeverRaises ==
    cv.phase = "out" =>
        /\ cv.result # Raise
        /\ (\A k \in 1..Len(cv.fetched) :
               cv.fetched[k] = cv.url => ~CoverResponse(k).ok)
              => cv.result = None
        /\ (cv.result # None /\ cv.result[1] = "favicon")
              => \E k \in 1..Len(cv.fetched) :
                    /\ CoverResponse(k).ok
                    /\ MetaContent(CoverResponse(k)) = "absent"
        /\ (Len(cv.fetched) = 3) => cv.fetched[2] = FullTextUrl

----------------------------------------------------------------------------
(* PubMed *)

md5(u) == <<"md5", u>>

Item(title, summary, url, cover, source, time, tags) ==
    [id |-> md5(url), title |-> title, summary |-> summary, url |-> url,
     cover |-> cover, source |-> source, time |-> time, tags |-> tags]

\* fetch_pubmed_summaries on the records esummary returned: one summary per
\* record, or [] when safe_get failed or anything in the try block raised
fetch_pubmed_summaries(resp, now) ==
    IF ~resp.ok THEN <<>>
    ELSE IF \E i \in 1..Len(resp.recs) :
               resp.recs[i].date # <<>> /\ iso_date(resp.recs[i].date) = Raise
         THEN <<>>
    ELSE [i \in 1..Len(resp.recs) |->
            LET v == resp.recs[i]
            IN  [pmid |-> v.pmid, title |-> v.title, source |-> v.journal,
                 time |-> (IF v.date # <<>> THEN iso_date(v.date)
                           ELSE today_jst_str(now)),
                 url |-> PubMedUrl(v.pmid)]]

\* fetch_pubmed_abstract when safe_get answers page
fetch_pubmed_abstract(page) == IF page.ok THEN page.abstract ELSE <<>>

\* what an adapter call comes to: its items, or an exception that leaves it
Returned(items) == [raised |-> FALSE, items |-> items]

Raised == [raised |-> TRUE, items |-> <<>>]

\* the loop of build_pubmed_items from summary i on; it raises when
\* best_cover_for raises
RECURSIVE PubMedLoop(_, _, _, _, _, _, _, _)
PubMedLoop(summaries, i, items, days, limit, extra_tags, now, page) ==
    IF i > Len(summaries) THEN Returned(items)
    ELSE IF ~within_days(summaries[i].time, days, now)
         THEN PubMedLoop(summaries, i + 1, items, days, limit, extra_tags,
                         now, page)
    ELSE LET s == summaries[i]
             cover == best_cover_for(s.url, page, NoResponse, page).result
             it == Item(s.title, fetch_pubmed_abstract(page), s.url, cover,
                        s.source, s.time, <<"Peer-reviewed">> \o extra_tags)
         IN  IF cover = Raise THEN Raised
             ELSE IF Len(items) + 1 >= limit THEN Returned(Append(items, it))
             ELSE PubMedLoop(summaries, i + 1, Append(items, it), days, limit,
                             extra_tags, now, page)

\* build_pubmed_items(query, days, limit, extra_tags) when the query's
\* search answers resp and every landing page answers page; esearch returns
\* at most retmax identifiers
build_pubmed_items(resp, days, limit, extra_tags, now, page) ==
    LET capped == [resp EXCEPT !.recs = Prefix(resp.recs, Min(100, limit * 2))]
    IN  PubMedLoop(fetch_pubmed_summaries(capped, now), 1, <<>>, days, limit,
                   extra_tags, now, page)

----------------------------------------------------------------------------
(* arXiv *)

ArxivLinkTypes == {"text/html", "application/pdf"}

\* the href of the first link of an accepted type, else e.link
EntryLink(e) ==
    LET hits == {k \in 1..Len(e.links) : e.links[k].type \in ArxivLinkTypes}
    IN  IF hits = {} THEN e.link
        ELSE e.links[CHOOSE k \in hits : \A j \in hits : k <= j].href

\* the loop of fetch_arxiv from entry i on; it raises when e.title is
\* missing (AttributeError) or iso_date raises
RECURSIVE ArxivLoop(_, _, _, _, _, _, _)
ArxivLoop(entries, i, items, days, limit, extra_tags, now) ==
    IF i > Len(entries) THEN Returned(items)
    ELSE LET e == entries[i]
             link == EntryLink(e)
             date_iso == IF e.published # <<>> THEN iso_date(e.published)
                         ELSE today_jst_str(now)
             it == Item(e.title, e.summary, link, <<"favicon", link.host>>,
                        "arXiv", date_iso, <<"Preprint">> \o extra_tags)
         IN  IF ~e.has_title \/ date_iso = Raise THEN Raised
             ELSE IF ~within_days(date_iso, days, now)
                  THEN ArxivLoop(entries, i + 1, items, days, limit,
                                 extra_tags, now)
             ELSE IF Len(items) + 1 >= limit THEN Returned(Append(items, it))
             ELSE ArxivLoop(entries, i + 1, Append(items, it), days, limit,
                            extra_tags, now)

\* fetch_arxiv(query, days, limit, extra_tags) on the entries feedparser
\* parsed (none when the request failed); the API returns at most
\* max_results = limit * 2 entries
fetch_arxiv(entries, days, limit, extra_tags, now) ==
    ArxivLoop(Prefix(entries, limit * 2), 1, <<>>, days, limit, extra_tags, now)

----------------------------------------------------------------------------
(* What the sources may answer *)

Str_2024_Feb_29 == <<"2", "0", "2", "4", " ", "F", "e", "b", " ", "2", "9">>

Str_2024 == <<"2", "0", "2", "4">>

Str_sort_0228 == <<"2", "0", "2", "4", "/", "0", "2", "/", "2", "8",
                   " ", "0", "0", ":", "0", "0">>

Str_sort_1201 == <<"2", "0", "2", "3", "/", "1", "2", "/", "0", "1",
                   " ", "0", "0", ":", "0", "0">>

Str_sort_0230 == <<"2", "0", "2", "4", "/", "0", "2", "/", "3", "0",
                   " ", "0", "0", ":", "0", "0">>

Str_yesterday == <<"y", "e", "s", "t", "e", "r", "d", "a", "y">>

TimeOfDay == <<"T", "0", "9", ":", "3", "0", ":", "0", "0", "Z">>

\* esummary records: pubdate as PubMed prints it ("2024 Feb 29", "2024"),
\* sortpubdate ("2024/02/28 00:00"), no date at all, an old date, and a
\* date that is no calendar day
PubRecs ==
    { [pmid |-> "38000001", title |-> <<"Deep", "Learning", "MRI">>,
       journal |-> "Nature", date |-> Str_2024_Feb_29],
      [pmid |-> "38000002", title |-> <<"Single-Cell", "Atlas">>,
       journal |-> "Nature", date |-> Str_sort_0228],
      [pmid |-> "38000003", title |-> <<"deep", "learning", "mri">>,
       journal |-> "NATURE", date |-> <<>>],
      [pmid |-> "38000004", title |-> <<"Atlas">>,
       journal |-> "Nature", date |-> Str_2024],
      [pmid |-> "38000005", title |-> <<"MRI">>,
       journal |-> "Nature", date |-> Str_sort_1201],
      [pmid |-> "38000006", title |-> <<"MRI", "Atlas">>,
       journal |-> "Nature", date |-> Str_sort_0230] }

ArxivUrl(n) == [host |-> "arxiv.org", path |-> n, query |-> ""]

ArxivEntry(n, has_title, title, summary, published) ==
    [has_title |-> has_title, title |-> title, summary |-> summary,
     links |-> << [type |-> "application/atom+xml", href |-> ArxivUrl(n)],
                  [type |-> "text/html", href |-> ArxivUrl(n)] >>,
     link |-> ArxivUrl(n), published |-> published]

\* feed entries: a fresh one, one with a date in words, one with a date
\* that is no calendar day, one without a title, one without a date, an
\* old one
ArxivEntries ==
    { ArxivEntry("2403.00001", TRUE, <<"Deep", "Learning", "MRI">>,
                 <<"SINGLE-CELL", "single-cell">>,
                 IsoFormat(<<2024, 3, 1>>) \o TimeOfDay),
      ArxivEntry("2403.00002", TRUE, <<"Atlas">>, <<"MRI">>, Str_yesterday),
      ArxivEntry("2403.00003", TRUE, <<"MRI">>, <<"Atlas">>,
                 IsoFormat(<<2024, 2, 30>>) \o TimeOfDay),
      ArxivEntry("2403.00004", FALSE, <<>>, <<"Atlas">>,
                 IsoFormat(<<2024, 3, 1>>) \o TimeOfDay),
      ArxivEntry("2403.00005", TRUE, <<"Single-Cell", "Atlas">>, <<>>, <<>>),
      ArxivEntry("2312.00006", TRUE, <<"MRI", "Atlas">>, <<"deep">>,
                 IsoFormat(<<2023, 12, 1>>) \o TimeOfDay) }

\* a block of distinct records without a date, as many as the query asks for
Bulk == [bulk |-> TRUE]

IsBulk(c) == "bulk" \in DOMAIN c

BulkPubRec(i) ==
    [pmid |-> ToString(i), title |-> <<"paper", ToString(i)>>,
     journal |-> "Nature", date |-> <<>>]

BulkArxivEntry(i) ==
    ArxivEntry(ToString(i), TRUE, <<"preprint", ToString(i)>>, <<>>, <<>>)

RECURSIVE ExpandPub(_, _)
ExpandPub(chunks, n) ==
    IF chunks = <<>> THEN <<>>
    ELSE (IF IsBulk(Head(chunks)) THEN [i \in 1..n |-> BulkPubRec(i)]
          ELSE <<Head(chunks)>>) \o ExpandPub(Tail(chunks), n)

RECURSIVE ExpandArxiv(_, _)
ExpandArxiv(chunks, n) ==
    IF chunks = <<>> THEN <<>>
    ELSE (IF IsBulk(Head(chunks)) THEN [i \in 1..n |-> BulkArxivEntry(i)]
          ELSE <<Head(chunks)>>) \o ExpandArxiv(Tail(chunks), n)

\* the records one run may receive in all, a block counting as one
MaxRecs == 2

\* sequences of at most n distinct members of S
DistinctSeqs(S, n) ==
    UNION { {q \in [1..k -> S] : \A i, j \in 1..k : i # j => q[i] # q[j]}
            : k \in 0..n }

\* the landing pages of one PubMed call: unreachable, with a preview image
\* and an abstract, with neither, with a preview image URL urljoin rejects
PubWebs ==
    { [ok |-> FALSE],
      [ok |-> TRUE, og |-> "img", tw |-> "absent", link |-> "absent",
       abstract |-> <<"Single-Cell", "Atlas">>],
      [ok |-> TRUE, og |-> "absent", tw |-> "absent", link |-> "absent",
       abstract |-> <<>>],
      [ok |-> TRUE, og |-> "absent", tw |-> "bad", link |-> "absent",
       abstract |-> <<>>] }

\* the day of the run: the morrow of a leap day
RunDays == {<<2024, 3, 1>>}

----------------------------------------------------------------------------
(* main *)

\* ai_all, micro_all and bio_all of main
AssembleUncapped(aiPub, microPub, bioPub, aiArxiv, bioArxiv) ==
    [t \in Topics |->
        CASE t = "ai_biomed" -> dedupe(aiPub \o aiArxiv)
          [] t = "microfluidics" -> dedupe(microPub)
          [] t = "bioinfo" -> dedupe(bioPub \o bioArxiv)]

Assemble(aiPub, microPub, bioPub, aiArxiv, bioArxiv) ==
    [t \in Topics |->
        CASE t = "ai_biomed" ->
               Prefix(dedupe(aiPub \o aiArxiv), MAX_PER_SECTION)
          [] t = "microfluidics" ->
               Prefix(dedupe(microPub), Max(12, MAX_PER_SECTION \div 2))
          [] t = "bioinfo" ->
               Prefix(dedupe(bioPub \o bioArxiv), MAX_PER_SECTION)]

Init ==
    /\ pc = "ai_pub"
    /\ today \in RunDays
    /\ ai_pub = <<>> /\ micro_pub = <<>> /\ bio_pub = <<>>
    /\ ai_arxiv = <<>> /\ bio_arxiv = <<>>
    /\ bucket = EmptyBuckets /\ written = {} /\ nrecs = 0 /\ last = NoFetch
    /\ wd = [phase |-> "idle"] /\ dd = [phase |-> "idle"]
    /\ cv = [phase |-> "idle"]

\* one PubMed query answered: transport failure, or records
PubAnswers ==
    {[ok |-> FALSE, chunks |-> <<>>]} \cup
    {[ok |-> TRUE, chunks |-> q] :
        q \in DistinctSeqs(PubRecs \cup {Bulk}, MaxRecs - nrecs)}

ArxivAnswers == DistinctSeqs(ArxivEntries \cup {Bulk}, MaxRecs - nrecs)

PubCall(ans, limit, extra_tags, page) ==
    build_pubmed_items(
        [ok |-> ans.ok, recs |-> ExpandPub(ans.chunks, Min(100, limit * 2))],
        DAYS_LOOKBACK, limit, extra_tags, today, page)

ArxivCall(chunks, limit) ==
    fetch_arxiv(ExpandArxiv(chunks, limit * 2), DAYS_LOOKBACK, limit,
                <<"Preprint">>, today)

\* ai_pub = build_pubmed_items(q_ai, DAYS_LOOKBACK, MAX_PER_SECTION, ["Radiology"])
FetchAiPub ==
    /\ pc = "ai_pub"
    /\ \E ans \in PubAnswers, page \in PubWebs :
         LET r == PubCall(ans, MAX_PER_SECTION, <<"Radiology">>, page)
         IN  /\ pc' = IF r.raised THEN "aborted" ELSE "micro_pub"
             /\ ai_pub' = r.items
             /\ nrecs' = nrecs + Len(ans.chunks)
             /\ last' = [source |-> "ai_pub", ok |-> ans.ok, recs |-> ans.chunks]
    /\ UNCHANGED <<today, micro_pub, bio_pub, ai_arxiv, bio_arxiv, bucket,
                   written, wd, dd, cv>>

\* micro_pub = build_pubmed_items(q_micro, ..., max(15, MAX_PER_SECTION//2), ["AST"])
FetchMicroPub ==
    /\ pc = "micro_pub"
    /\ \E ans \in PubAnswers, page \in PubWebs :
         LET r == PubCall(ans, Max(15, MAX_PER_SECTION \div 2), <<"AST">>, page)
         IN  /\ pc' = IF r.raised THEN "aborted" ELSE "bio_pub"
             /\ micro_pub' = r.items
             /\ nrecs' = nrecs + Len(ans.chunks)
             /\ last' = [source |-> "micro_pub", ok |-> ans.ok, recs |-> ans.chunks]
    /\ UNCHANGED <<today, ai_pub, bio_pub, ai_arxiv, bio_arxiv, bucket,
                   written, wd, dd, cv>>

\* bio_pub = build_pubmed_items(q_bioinfo, ..., max(20, MAX_PER_SECTION//2), ["Single-cell"])
FetchBioPub ==
    /\ pc = "bio_pub"
    /\ \E ans \in PubAnswers, page \in PubWebs :
         LET r == PubCall(ans, Max(20, MAX_PER_SECTION \div 2),
                          <<"Single-cell">>, page)
         IN  /\ pc' = IF r.raised THEN "aborted" ELSE "ai_arxiv"
             /\ bio_pub' = r.items
             /\ nrecs' = nrecs + Len(ans.chunks)
             /\ last' = [source |-> "bio_pub", ok |-> ans.ok, recs |-> ans.chunks]
    /\ UNCHANGED <<today, ai_pub, micro_pub, ai_arxiv, bio_arxiv, bucket,
                   written, wd, dd, cv>>

\* ai_arxiv = fetch_arxiv(..., limit=15, extra_tags=["Preprint"])
FetchAiArxiv ==
    /\ pc = "ai_arxiv"
    /\ \E chunks \in ArxivAnswers :
         LET r == ArxivCall(chunks, 15)
         IN  /\ pc' = IF r.raised THEN "aborted" ELSE "bio_arxiv"
             /\ ai_arxiv' = r.items
             /\ nrecs' = nrecs + Len(chunks)
             /\ last' = [source |-> "ai_arxiv", ok |-> TRUE, recs |-> chunks]
    /\ UNCHANGED <<today, ai_pub, micro_pub, bio_pub, bio_arxiv, bucket,
                   written, wd, dd, cv>>

\* bio_arxiv = fetch_arxiv(..., limit=10, extra_tags=["Preprint"])
FetchBioArxiv ==
    /\ pc = "bio_arxiv"
    /\ \E chunks \in ArxivAnswers :
         LET r == ArxivCall(chunks, 10)
         IN  /\ pc' = IF r.raised THEN "aborted" ELSE "assemble"
             /\ bio_arxiv' = r.items
             /\ nrecs' = nrecs + Len(chunks)
             /\ last' = [source |-> "bio_arxiv", ok |-> TRUE, recs |-> chunks]
    /\ UNCHANGED <<today, ai_pub, micro_pub, bio_pub, ai_arxiv, bucket,
                   written, wd, dd, cv>>

\* dedupe, cut to size and pack the payload
AssembleBuckets ==
    /\ pc = "assemble"
    /\ bucket' = Assemble(ai_pub, micro_pub, bio_pub, ai_arxiv, bio_arxiv)
    /\ pc' = "write_json"
    /\ UNCHANGED <<today, ai_pub, micro_pub, bio_pub, ai_arxiv, bio_arxiv,
                   written, nrecs, last, wd, dd, cv>>

WriteJson ==
    /\ pc = "write_json"
    /\ written' = written \cup {"json"}
    /\ pc' = "write_md"
    /\ UNCHANGED <<today, ai_pub, micro_pub, bio_pub, ai_arxiv, bio_arxiv,
                   bucket, nrecs, last, wd, dd, cv>>

WriteMd ==
    /\ pc = "write_md"
    /\ written' = written \cup {"md"}
    /\ pc' = "done"
    /\ UNCHANGED <<today, ai_pub, micro_pub, bio_pub, ai_arxiv, bio_arxiv,
                   bucket, nrecs, last, wd, dd, cv>>

Next ==
    \/ FetchAiPub \/ FetchMicroPub \/ FetchBioPub
    \/ FetchAiArxiv \/ FetchBioArxiv
    \/ AssembleBuckets \/ WriteJson \/ WriteMd

Spec == Init /\ [][Next]_vars

----------------------------------------------------------------------------
(* Properties of a run *)

Range(q) == {q[i] : i \in 1..Len(q)}

\* main's local of the latest fetch
LastList ==
    CASE last.source = "ai_pub" -> ai_pub
      [] last.source = "micro_pub" -> micro_pub
      [] last.source = "bio_pub" -> bio_pub
      [] last.source = "ai_arxiv" -> ai_arxiv
      [] last.source = "bio_arxiv" -> bio_arxiv

LastIsArxiv == last.source \in {"ai_arxiv", "bio_arxiv"}

LastIsPubMed == last.source \in {"ai_pub", "micro_pub", "bio_pub"}

\* the latest source failed: no answer, or, among the few records it
\* returned, an entry without a title or with a date that names no
\* calendar day
LastSourceFailed ==
    \/ LastIsPubMed /\ ~last.ok
    \/ LastIsPubMed /\ (\A r \in Range(last.recs) : ~IsBulk(r))
          /\ \E r \in Range(last.recs) :
                r.date # <<>> /\ iso_date(r.date) = Raise
    \/ LastIsArxiv /\ (\A e \in Range(last.recs) : ~IsBulk(e))
          /\ \E e \in Range(last.recs) :
                \/ ~e.has_title
                \/ e.published # <<>> /\ iso_date(e.published) = Raise

\* C3: a failure while fetching or parsing a single source never aborts the
\* run: the source contributes no items, and the run ends with both files
\* written.
C3_SourceFailureNeverAborts ==
    /\ LastSourceFailed => (pc # "aborted" /\ LastList = <<>>)
    /\ pc = "done" => written = {"json", "md"}

\* C4: in every bucket the items are ordered by time descending: of two
\* adjacent items the earlier one's date is not older than the later one's.
C4_BucketsSortedByTime ==
    \A t \in Topics : \A i \in 1..(Len(bucket[t]) - 1) :
        LET a == FromIsoFormat(bucket[t][i].time)
            b == FromIsoFormat(bucket[t][i + 1].time)
        IN  (a # NoDate /\ b # NoDate) => ~DateLess(a, b)

\* C5: no bucket of the snapshot holds more items than the configured
\* maximum count.
C5_BucketWithinMax ==
    \A t \in Topics : Len(bucket[t]) <= MAX_PER_SECTION

\* the sources returned more distinct items for ai_biomed than the maximum,
\* and the written snapshot holds exactly the maximum
C5_Witness ==
    /\ pc = "done"
    /\ Len(dedupe(ai_pub \o ai_arxiv)) > MAX_PER_SECTION
    /\ Len(bucket["ai_biomed"]) = MAX_PER_SECTION

FetchedItems ==
    Range(ai_pub) \cup Range(micro_pub) \cup Range(bio_pub)
      \cup Range(ai_arxiv) \cup Range(bio_arxiv)
      \cup UNION {Range(bucket[t]) : t \in Topics}

\* C6: the time of every item built from a source record is a non-empty
\* string of the form YYYY-MM-DD that names a calendar date.
C6_TimeIsCalendarDate ==
    \A it \in FetchedItems :
        Len(it.time) = 10 /\ FromIsoFormat(it.time) # NoDate

\* C7: the tags of every item in every bucket hold no label twice.
C7_TagsWithoutDuplicates ==
    \A t \in Topics : \A it \in Range(bucket[t]) :
        \A a, b \in 1..Len(it.tags) : a # b => it.tags[a] # it.tags[b]

\* a date string that is present and names no date, whichever way iso_date
\* reads it
Unparseable(s) ==
    /\ s # <<>>
    /\ FromIsoFormat(Prefix(s, 10)) = NoDate
    /\ LET m == ReSearch(s)
       IN  m = NoDate \/ ~ValidDate(m[1], m[2], m[3])

\* C8: a feed entry whose date is present but cannot be parsed is not
\* dropped and does not fail: its item carries today's date (JST) and has
\* passed the recency filter.
C8_UnparseableDateBecomesToday ==
    (LastIsArxiv /\ Len(last.recs) = 1 /\ ~IsBulk(last.recs[1])
       /\ last.recs[1].has_title /\ Unparseable(last.recs[1].published)) =>
        /\ pc # "aborted"
        /\ Len(LastList) = 1
        /\ LastList[1].url = EntryLink(last.recs[1])
        /\ LastList[1].time = IsoFormat(today)

\* the spec's example of the tagger's table: in bioinfo the keyword
\* "single-cell" stands for the label "Single-cell"
KeywordLabels ==
    [t \in Topics |->
        IF t = "bioinfo" THEN {[keyword |-> "single-cell", label |-> "Single-cell"]}
        ELSE {}]

Count(q, x) == Cardinality({i \in 1..Len(q) : q[i] = x})

\* C9: an item whose title or summary contains, in any letter case, a
\* keyword of a label of its topic carries that label exactly once.
C9_KeywordLabelPresentOnce ==
    \A t \in Topics : \A it \in Range(bucket[t]) : \A kl \in KeywordLabels[t] :
        kl.keyword \in Range(Lower(it.title \o it.summary))
            => Count(it.tags, kl.label) = 1

=============================================================================
